---- MODULE Spec2Model ----
(***************************************************************************)
(* Model of the file-to-text extraction pipeline of doc-converter          *)
(* (utils/fileParser.js): the dispatcher extractTextFromFile, the PDF and  *)
(* DOCX decoders, the Tesseract OCR decoder extractTextFromImage and its   *)
(* multi-language variant.  One extraction call runs at a time; a new call *)
(* may start when the previous one has settled.  Strings are TLA+ strings, *)
(* handled character by character with Len, SubSeq and \o.                 *)
(***************************************************************************)
EXTENDS Integers, Sequences, FiniteSets, TLC

(***************************************************************************)
(* Bounds of the model.                                                    *)
(***************************************************************************)
MaxPages == 3
MaxEvents == 2
NumCalls == 2
MaxEngines == 3

(***************************************************************************)
(* String primitives of JavaScript used by the code.                       *)
(***************************************************************************)
IsWhitespace(c) == c \in {" ", "\n", "\t"}

RECURSIVE TrimStart(_)
TrimStart(s) ==
  IF Len(s) = 0 THEN s
  ELSE IF IsWhitespace(SubSeq(s, 1, 1)) THEN TrimStart(SubSeq(s, 2, Len(s)))
  ELSE s

RECURSIVE TrimEnd(_)
TrimEnd(s) ==
  IF Len(s) = 0 THEN s
  ELSE IF IsWhitespace(SubSeq(s, Len(s), Len(s))) THEN TrimEnd(SubSeq(s, 1, Len(s) - 1))
  ELSE s

\* Trim that strips the start only
Trim_StartOnly(s) == TrimStart(s)

\* String.prototype.trim
Trim(s) == TrimEnd(TrimStart(s))

\* String.prototype.includes
Includes(s, sub) ==
  \E i \in 1..(Len(s) - Len(sub) + 1) : SubSeq(s, i, i + Len(sub) - 1) = sub

\* String.prototype.startsWith
StartsWith(s, prefix) ==
  /\ Len(s) >= Len(prefix)
  /\ SubSeq(s, 1, Len(prefix)) = prefix

\* Array.prototype.join
RECURSIVE Join(_, _)
Join(items, sep) ==
  IF Len(items) = 0 THEN ""
  ELSE IF Len(items) = 1 THEN items[1]
  ELSE items[1] \o sep \o Join(Tail(items), sep)

(***************************************************************************)
(* Thrown values.  A thrown value carries a message property or not (a     *)
(* library may reject with something that is not an Error); a template     *)
(* literal renders a missing message as "undefined".                       *)
(***************************************************************************)
Error(msg) == [defined |-> TRUE, message |-> msg]
NoMessage == [defined |-> FALSE, message |-> ""]
MessageText(e) == IF e.defined THEN e.message ELSE "undefined"
MessageTruthy(e) == e.defined /\ e.message # ""

\* Settled promises: resolved with a value, or rejected with a thrown value.
Resolved(v) == [ok |-> TRUE, value |-> v]
Rejected(e) == [ok |-> FALSE, error |-> e]

(***************************************************************************)
(* Literals of the source.                                                 *)
(***************************************************************************)
PDF_TYPE == "application/pdf"
DOCX_TYPE == "application/vnd.openxmlformats-officedocument.wordprocessingml.document"
IMAGE_PREFIX == "image/"
UnsupportedMsg == "Unsupported file type"
ExtractPrefix == "Failed to extract text: "
NoTextMsg == "No text could be recognized in the image. The image may be too blurry, low quality, or may not contain any text."
RecognitionFailedMsg == "Failed to recognize text in image. Please ensure the image contains clear, readable text."
OcrPrefix == "OCR processing failed: "
MultiNoTextMsg == "No text could be recognized in the image."
RecognizeWord == "recognize"
LowConfidence == 60
PageSeparator == "\n\n"
FragmentSeparator == " "
LangSeparator == "+"
DefaultLang == "eng"

STATUS_RECOGNIZING == "recognizing text"
STATUS_CORE == "loading tesseract core"
STATUS_INIT == "initializing tesseract"
STATUS_LANG == "loading language traineddata"

\* m.progress may be absent from an engine event
UndefinedProgress == -1
OrZero(p) == IF p = UndefinedProgress \/ p = 0 THEN 0 ELSE p

(***************************************************************************)
(* Inputs: what the caller and the libraries can hand to the code.         *)
(***************************************************************************)
FileTypes == {PDF_TYPE, DOCX_TYPE, "image/png", "image", "text/plain", "application/pdfx", ""}
PageItems == {<<>>, <<" ">>, <<"Foo">>, <<"Hello", "World">>, <<"Foo", " ">>}
Documents == UNION {[1..n -> PageItems] : n \in 1..MaxPages}
PdfErrors == {Error("Invalid PDF structure"), NoMessage}
DocxValues == {"", "Hello\n\n", "Hello World", "  "}
DocxErrors == {Error("Can't find end of central directory")}
CreateErrors == {Error("Failed to fetch"), NoMessage}
RecognizeErrors == {Error("Error in pixReadMem: cannot recognize image"), Error("Image too small to scale"), NoMessage}
RecognizedTexts == {"", "  \n", "  Invoice #123  ", "hello"}
Confidences == {42, 60}
TerminateErrors == {Error("Worker already terminated")}
EngineEvents ==
  {[status |-> STATUS_CORE, progress |-> UndefinedProgress],
   [status |-> STATUS_INIT, progress |-> 50],
   [status |-> STATUS_LANG, progress |-> UndefinedProgress],
   [status |-> STATUS_RECOGNIZING, progress |-> UndefinedProgress],
   [status |-> STATUS_RECOGNIZING, progress |-> 50],
   [status |-> "initialized api", progress |-> 50]}
LanguageLists == {<<"eng">>, <<"eng", "fra">>}

VARIABLES
  pc,             \* position of the running call
  entry,          \* exported function that was called: "file" or "multilang"
  file,           \* file.type of the call
  onProgress,     \* TRUE when the caller passed a progress sink
  runs,           \* how many times each decoder was entered by this call
  worker,         \* "null", "live" or "terminated"
  createArgs,     \* language strings passed to createWorker by this call
  recognizeCalls, \* worker.recognize calls of this call
  terminateCalls, \* worker.terminate calls of this call
  engineLog,      \* events the engine handed to the logger, in order
  sink,           \* events the progress sink received, in order
  outcome,        \* <<[text, confidence]>> once recognition resolved
  failStage,      \* stage of the OCR call that failed: create/recognize/validate/none
  engineError,    \* <<e>>: the value thrown inside the OCR try block
  warned,         \* the low-confidence advisory has been logged
  pending,        \* <<p>>: completion of the OCR try/catch, held during finally
  termOutcome,    \* "none", "ok" or "failed"
  pdf,            \* <<document>> once getDocument resolved
  pageNum,        \* loop variable of extractTextFromPDF
  fullText,       \* accumulator of extractTextFromPDF
  decoderError,   \* <<e>>: the value caught by extractTextFromFile
  result          \* <<r>>: what the caller of the exported function gets

vars == <<pc, entry, file, onProgress, runs, worker, createArgs, recognizeCalls,
          terminateCalls, engineLog, sink, outcome, failStage, engineError, warned,
          pending, termOutcome, pdf, pageNum, fullText, decoderError, result>>

ocrVars == <<worker, createArgs, recognizeCalls, terminateCalls, engineLog, sink,
             outcome, failStage, engineError, warned, pending, termOutcome>>
pdfVars == <<pdf, pageNum, fullText>>
callVars == <<entry, file, onProgress, runs>>

\* State of the other parts of the application, which the extraction pipeline
\* neither reads nor writes.
VARIABLES
  cpc,            \* concurrent OCR calls: position of each call
  cworker,        \* concurrent OCR calls: the local variable worker of each call
  engines,        \* concurrent OCR calls: every engine createWorker has made
  aiKey,          \* aiService: OPENAI_API_KEY is set
  aiMockEnv,      \* aiService: REACT_APP_USE_MOCK_AI === 'true'
  aiPc,           \* aiService: position of the running call
  aiFn,           \* aiService: "generate" or "improve"
  aiInput,        \* aiService: [text, instructions] of the call
  aiAttempt,      \* aiService: loop variable attempt of callOpenAI
  aiFetches,      \* aiService: fetch calls issued by this call
  aiFetchLog,     \* aiService: how each settled fetch ended, in order
  aiWaits,        \* aiService: backoff delays of this call in ms, in order
  aiBody,         \* aiService: <<b>>: the body read from the last response
  aiParses,       \* aiService: response.json() calls, by kind of response
  aiRequest,      \* aiService: <<text>>: the document text placed in the request
  aiResult,       \* aiService: <<r>>: what the caller gets
  uploadedFile,   \* App state: <<file>>, <<>> for null
  extractedText,  \* App state
  editorContent,  \* App state
  isProcessing,   \* App state
  isImproving,    \* App state
  error,          \* App state: <<message>>, <<>> for null
  processingStage,       \* App state
  showImprovementModal,  \* App state
  ocrProgress,    \* App state
  upPc,           \* handleFileUpload: "idle", "extracting" or "summarizing"
  upText,         \* handleFileUpload: the local constant text
  extraction,     \* <<p>>: how extractTextFromFile settled for this upload
  generateCalls,  \* texts passed to generateSummary by this upload, in order
  summarization,        \* <<p>>: how generateSummary settled for this upload
  impPc,          \* handleImproveWithAI: "idle" or "improving"
  improveArgs,    \* <<[content, instructions]>>: arguments of the last improveSummary call
  improvement,    \* <<p>>: how the last improveSummary call settled
  isDragging,     \* DocumentUploader state
  validationError,       \* DocumentUploader state: <<message>>, <<>> for null
  dialogOpen,     \* the browser's file chooser is open (after fileInput.click())
  lastDrop        \* the disabled prop at the drop event just handled; "none" when the latest step was not a drop

concVars == <<cpc, cworker, engines>>
aiVars == <<aiKey, aiMockEnv, aiPc, aiFn, aiInput, aiAttempt, aiFetches, aiFetchLog,
            aiWaits, aiBody, aiParses, aiRequest, aiResult>>
appStateVars == <<uploadedFile, extractedText, editorContent, isProcessing, isImproving,
                  error, processingStage, showImprovementModal, ocrProgress>>
uploadRunVars == <<upPc, upText, extraction, generateCalls, summarization>>
improveRunVars == <<impPc, improveArgs, improvement>>
uploaderVars == <<isDragging, validationError, dialogOpen, lastDrop>>
appVars == <<appStateVars, uploadRunVars, improveRunVars, uploaderVars>>
allVars == <<vars, concVars, aiVars, appVars>>

NoRuns == [pdf |-> 0, docx |-> 0, ocr |-> 0]

Init ==
  /\ pc = "idle"
  /\ entry = "file"
  /\ file = ""
  /\ onProgress = FALSE
  /\ runs = NoRuns
  /\ worker = "null"
  /\ createArgs = <<>>
  /\ recognizeCalls = 0
  /\ terminateCalls = 0
  /\ engineLog = <<>>
  /\ sink = <<>>
  /\ outcome = <<>>
  /\ failStage = "none"
  /\ engineError = <<>>
  /\ warned = FALSE
  /\ pending = <<>>
  /\ termOutcome = "none"
  /\ pdf = <<>>
  /\ pageNum = 0
  /\ fullText = ""
  /\ decoderError = <<>>
  /\ result = <<>>

\* State of a call that has just been entered.
Fresh ==
  /\ worker' = "null"
  /\ recognizeCalls' = 0
  /\ terminateCalls' = 0
  /\ engineLog' = <<>>
  /\ sink' = <<>>
  /\ outcome' = <<>>
  /\ failStage' = "none"
  /\ engineError' = <<>>
  /\ warned' = FALSE
  /\ pending' = <<>>
  /\ termOutcome' = "none"
  /\ pdf' = <<>>
  /\ pageNum' = 0
  /\ fullText' = ""

(***************************************************************************)
(* extractTextFromFile: the dispatcher.                                    *)
(***************************************************************************)
\* Decoder with the PDF type matched by prefix instead of equality
Decoder_PdfPrefix(fileType) ==
  IF StartsWith(fileType, PDF_TYPE) THEN "pdf"
  ELSE IF fileType = DOCX_TYPE THEN "docx"
  ELSE IF StartsWith(fileType, IMAGE_PREFIX) THEN "ocr"
  ELSE "unsupported"

\* Decoder with the final else branch falling back to OCR
Decoder_OcrFallback(fileType) ==
  IF fileType = PDF_TYPE THEN "pdf"
  ELSE IF fileType = DOCX_TYPE THEN "docx"
  ELSE "ocr"

\* The if/else-if chain on file.type
Decoder(fileType) ==
  IF fileType = PDF_TYPE THEN "pdf"
  ELSE IF fileType = DOCX_TYPE THEN "docx"
  ELSE IF StartsWith(fileType, IMAGE_PREFIX) THEN "ocr"
  ELSE "unsupported"

\* WrapExtract that rethrows the caught error as it is
WrapExtract_Rethrow(e) == e

\* catch (error) { throw new Error(`Failed to extract text: ${error.message}`) }
WrapExtract(e) == Error(ExtractPrefix \o MessageText(e))

\* A decoder's promise settles inside the dispatcher's try block.
Deliver(p) ==
  IF p.ok
  THEN /\ result' = <<p>>
       /\ decoderError' = <<>>
  ELSE /\ result' = <<Rejected(WrapExtract(p.error))>>
       /\ decoderError' = <<p.error>>

\* A call of extractTextFromFile(file, onProgress) runs up to its first await:
\* into the selected decoder, or to the throw of the final else branch.
CallExtractTextFromFile(type, progressSink) ==
  /\ pc \in {"idle", "done"}
  /\ Fresh
  /\ entry' = "file"
  /\ file' = type
  /\ onProgress' = progressSink
  /\ LET d == Decoder(type) IN
       /\ runs' = [k \in DOMAIN NoRuns |-> IF k = d THEN 1 ELSE 0]
       /\ createArgs' = IF d = "ocr" THEN <<DefaultLang>> ELSE <<>>
       /\ IF d = "unsupported"
          THEN /\ Deliver(Rejected(Error(UnsupportedMsg)))
               /\ pc' = "done"
          ELSE /\ result' = <<>>
               /\ decoderError' = <<>>
               /\ pc' = CASE d = "pdf" -> "pdf_load"
                          [] d = "docx" -> "docx_load"
                          [] OTHER -> "ocr_create"
  /\ UNCHANGED <<concVars, aiVars, appVars>>

(***************************************************************************)
(* extractTextFromPDF                                                      *)
(***************************************************************************)
\* textContent.items.map(item => item.str).join(' ')
PageText(items) == Join(items, FragmentSeparator)

\* AppendPage that puts the new page in front of the accumulated text
AppendPage_Prepend(text, items) == PageText(items) \o PageSeparator \o text

\* AppendPage that skips a page without fragments
AppendPage_SkipEmpty(text, items) ==
  IF Len(items) = 0 THEN text ELSE text \o PageText(items) \o PageSeparator

\* fullText += pageText + '\n\n'
AppendPage(text, items) == text \o PageText(items) \o PageSeparator

\* file.arrayBuffer() and getDocument(...).promise resolve
GetDocumentResolves(doc) ==
  /\ pc = "pdf_load"
  /\ pdf' = <<doc>>
  /\ pageNum' = 1
  /\ fullText' = ""
  /\ pc' = "pdf_page"
  /\ UNCHANGED <<callVars, ocrVars, decoderError, result>>
  /\ UNCHANGED <<concVars, aiVars, appVars>>

\* file.arrayBuffer() or getDocument(...).promise rejects
GetDocumentRejects(e) ==
  /\ pc = "pdf_load"
  /\ Deliver(Rejected(e))
  /\ pc' = "done"
  /\ UNCHANGED <<callVars, ocrVars, pdfVars>>
  /\ UNCHANGED <<concVars, aiVars, appVars>>

\* One iteration of the page loop: getPage and getTextContent resolve; after
\* the last page the function returns fullText.trim().
PageResolves ==
  /\ pc = "pdf_page"
  /\ LET doc == pdf[1]
         text == AppendPage(fullText, doc[pageNum])
     IN /\ fullText' = text
        /\ pageNum' = pageNum + 1
        /\ IF pageNum + 1 <= Len(doc)
           THEN /\ pc' = "pdf_page"
                /\ UNCHANGED <<decoderError, result>>
           ELSE /\ pc' = "done"
                /\ Deliver(Resolved(Trim(text)))
  /\ UNCHANGED <<callVars, ocrVars, pdf>>
  /\ UNCHANGED <<concVars, aiVars, appVars>>

\* getPage or getTextContent rejects
PageRejects(e) ==
  /\ pc = "pdf_page"
  /\ Deliver(Rejected(e))
  /\ pc' = "done"
  /\ UNCHANGED <<callVars, ocrVars, pdfVars>>
  /\ UNCHANGED <<concVars, aiVars, appVars>>

(***************************************************************************)
(* extractTextFromDOCX                                                     *)
(***************************************************************************)
\* DocxCompletion that validates and trims like the OCR decoder
DocxCompletion_Validated(value) ==
  IF value = "" \/ Len(Trim(value)) = 0
  THEN Rejected(Error(MultiNoTextMsg))
  ELSE Resolved(Trim(value))

\* return result.value
DocxCompletion(value) == Resolved(value)

\* mammoth.extractRawText resolves with {value}
ExtractRawTextResolves(value) ==
  /\ pc = "docx_load"
  /\ Deliver(DocxCompletion(value))
  /\ pc' = "done"
  /\ UNCHANGED <<callVars, ocrVars, pdfVars>>
  /\ UNCHANGED <<concVars, aiVars, appVars>>

ExtractRawTextRejects(e) ==
  /\ pc = "docx_load"
  /\ Deliver(Rejected(e))
  /\ pc' = "done"
  /\ UNCHANGED <<callVars, ocrVars, pdfVars>>
  /\ UNCHANGED <<concVars, aiVars, appVars>>

(***************************************************************************)
(* extractTextFromImage and extractTextFromImageMultiLang                  *)
(***************************************************************************)
\* Logger without the stage filter
Logger_Unfiltered(hasSink, m) ==
  IF hasSink
  THEN <<[status |-> m.status, progress |-> m.progress]>>
  ELSE <<>>

\* The logger option of extractTextFromImage: what it passes to onProgress
\* for an engine event m.
Logger(hasSink, m) ==
  IF ~hasSink THEN <<>>
  ELSE IF m.status = STATUS_RECOGNIZING
       THEN <<[status |-> m.status, progress |-> m.progress]>>
  ELSE IF m.status \in {STATUS_CORE, STATUS_INIT, STATUS_LANG}
       THEN <<[status |-> m.status, progress |-> OrZero(m.progress)]>>
  ELSE <<>>

\* MultiLangLogger with the stage filter of the single-language logger
MultiLangLogger_Filtered(hasSink, m) ==
  IF hasSink /\ m.status \in {STATUS_CORE, STATUS_INIT, STATUS_LANG, STATUS_RECOGNIZING}
  THEN <<[status |-> m.status, progress |-> OrZero(m.progress)]>>
  ELSE <<>>

\* The logger option of extractTextFromImageMultiLang
MultiLangLogger(hasSink, m) ==
  IF hasSink
  THEN <<[status |-> m.status, progress |-> OrZero(m.progress)]>>
  ELSE <<>>

\* if (!text || text.trim().length === 0)
NoText(text) == text = "" \/ Len(Trim(text)) = 0

\* The catch block of extractTextFromImage: the error it throws for a caught e
OcrCatch(e) ==
  IF MessageTruthy(e) /\ Includes(e.message, RecognizeWord)
  THEN Error(RecognitionFailedMsg)
  ELSE Error(OcrPrefix \o MessageText(e))

\* The catch block of extractTextFromImageMultiLang
MultiLangCatch(e) == Error(OcrPrefix \o MessageText(e))

Catch(e) == IF entry = "file" THEN OcrCatch(e) ELSE MultiLangCatch(e)

\* TerminateCatch without the inner try/catch: the termination error wins
TerminateCatch_Masks(p, e) == e

\* catch (e) { console.warn('Failed to terminate worker:', e) }: the completion
\* of the function after a termination that threw e
TerminateCatch(p, e) == p

\* The OCR function settles with p: towards the dispatcher's try block when it
\* was called from extractTextFromFile, to the caller otherwise.
Settle(p) ==
  IF entry = "file"
  THEN Deliver(p)
  ELSE /\ result' = <<p>>
       /\ decoderError' = <<>>

\* The finally block is entered with completion p: if (worker) it awaits
\* worker.terminate(), else the function settles at once.
Finally(w, p) ==
  /\ pending' = <<p>>
  /\ IF w # "null"
     THEN /\ terminateCalls' = terminateCalls + 1
          /\ pc' = "ocr_terminate"
          /\ UNCHANGED <<result, decoderError>>
     ELSE /\ pc' = "done"
          /\ Settle(p)
          /\ UNCHANGED terminateCalls

\* A call of the exported extractTextFromImageMultiLang(file, languages, onProgress)
CallExtractTextFromImageMultiLang(languages, progressSink) ==
  /\ pc \in {"idle", "done"}
  /\ Fresh
  /\ entry' = "multilang"
  /\ file' = "image/png"
  /\ onProgress' = progressSink
  /\ runs' = NoRuns
  /\ createArgs' = <<Join(languages, LangSeparator)>>
  /\ result' = <<>>
  /\ decoderError' = <<>>
  /\ pc' = "ocr_create"
  /\ UNCHANGED <<concVars, aiVars, appVars>>

\* The engine reports an event to the logger while createWorker or recognize
\* is pending.
EngineLogs(m) ==
  /\ pc \in {"ocr_create", "ocr_recognize"}
  /\ Len(engineLog) < MaxEvents
  /\ engineLog' = Append(engineLog, m)
  /\ sink' = sink \o (IF entry = "file" THEN Logger(onProgress, m)
                      ELSE MultiLangLogger(onProgress, m))
  /\ UNCHANGED <<pc, callVars, pdfVars, worker, createArgs, recognizeCalls,
                 terminateCalls, outcome, failStage, engineError, warned, pending,
                 termOutcome, decoderError, result>>
  /\ UNCHANGED <<concVars, aiVars, appVars>>

\* createWorker resolves; the function goes on to await worker.recognize(file)
CreateWorkerResolves ==
  /\ pc = "ocr_create"
  /\ worker' = "live"
  /\ recognizeCalls' = recognizeCalls + 1
  /\ pc' = "ocr_recognize"
  /\ UNCHANGED <<callVars, pdfVars, createArgs, terminateCalls, engineLog, sink,
                 outcome, failStage, engineError, warned, pending, termOutcome,
                 decoderError, result>>
  /\ UNCHANGED <<concVars, aiVars, appVars>>

\* createWorker rejects: catch, then finally with worker still null
CreateWorkerRejects(e) ==
  /\ pc = "ocr_create"
  /\ failStage' = "create"
  /\ engineError' = <<e>>
  /\ Finally(worker, Rejected(Catch(e)))
  /\ UNCHANGED <<callVars, pdfVars, worker, createArgs, recognizeCalls, engineLog,
                 sink, outcome, warned, termOutcome>>
  /\ UNCHANGED <<concVars, aiVars, appVars>>

\* Recognized that treats a low confidence as a failure
Recognized_RejectLow(text, confidence) ==
  IF confidence < LowConfidence
  THEN Rejected(Error(OcrPrefix \o "Low OCR confidence"))
  ELSE Resolved(Trim(text))

\* The confidence advisory and return text.trim(): the completion of the try
\* block for a validated outcome
Recognized(text, confidence) == Resolved(Trim(text))

\* worker.recognize resolves with {data: {text, confidence}}: validation, the
\* confidence advisory and return text.trim(), then finally
RecognizeResolves(text, confidence) ==
  /\ pc = "ocr_recognize"
  /\ outcome' = <<[text |-> text, confidence |-> confidence]>>
  /\ IF NoText(text)
     THEN LET e == Error(IF entry = "file" THEN NoTextMsg ELSE MultiNoTextMsg) IN
            /\ failStage' = "validate"
            /\ engineError' = <<e>>
            /\ warned' = FALSE
            /\ Finally(worker, Rejected(Catch(e)))
     ELSE /\ warned' = (entry = "file" /\ confidence < LowConfidence)
          /\ Finally(worker, Recognized(text, confidence))
          /\ UNCHANGED <<failStage, engineError>>
  /\ UNCHANGED <<callVars, pdfVars, worker, createArgs, recognizeCalls, engineLog,
                 sink, termOutcome>>
  /\ UNCHANGED <<concVars, aiVars, appVars>>

\* worker.recognize rejects: catch, then finally
RecognizeRejects(e) ==
  /\ pc = "ocr_recognize"
  /\ failStage' = "recognize"
  /\ engineError' = <<e>>
  /\ Finally(worker, Rejected(Catch(e)))
  /\ UNCHANGED <<callVars, pdfVars, worker, createArgs, recognizeCalls, engineLog,
                 sink, outcome, warned, termOutcome>>
  /\ UNCHANGED <<concVars, aiVars, appVars>>

\* worker.terminate() resolves; the function settles with the held completion
TerminateResolves ==
  /\ pc = "ocr_terminate"
  /\ worker' = "terminated"
  /\ termOutcome' = "ok"
  /\ Settle(pending[1])
  /\ pc' = "done"
  /\ UNCHANGED <<callVars, pdfVars, createArgs, recognizeCalls, terminateCalls,
                 engineLog, sink, outcome, failStage, engineError, warned, pending>>
  /\ UNCHANGED <<concVars, aiVars, appVars>>

\* worker.terminate() rejects: the inner catch logs it
TerminateRejects(e) ==
  /\ pc = "ocr_terminate"
  /\ termOutcome' = "failed"
  /\ Settle(TerminateCatch(pending[1], Rejected(e)))
  /\ pc' = "done"
  /\ UNCHANGED <<callVars, pdfVars, worker, createArgs, recognizeCalls,
                 terminateCalls, engineLog, sink, outcome, failStage, engineError,
                 warned, pending>>
  /\ UNCHANGED <<concVars, aiVars, appVars>>

(***************************************************************************)
(* The extraction pipeline.                                                *)
(***************************************************************************)
Next ==
  \/ \E type \in FileTypes, progressSink \in BOOLEAN :
       CallExtractTextFromFile(type, progressSink)
  \/ \E doc \in Documents : GetDocumentResolves(doc)
  \/ \E e \in PdfErrors : GetDocumentRejects(e)
  \/ PageResolves
  \/ \E e \in PdfErrors : PageRejects(e)
  \/ \E value \in DocxValues : ExtractRawTextResolves(value)
  \/ \E e \in DocxErrors : ExtractRawTextRejects(e)
  \/ \E languages \in LanguageLists, progressSink \in BOOLEAN :
       CallExtractTextFromImageMultiLang(languages, progressSink)
  \/ \E m \in EngineEvents : EngineLogs(m)
  \/ CreateWorkerResolves
  \/ \E e \in CreateErrors : CreateWorkerRejects(e)
  \/ \E text \in RecognizedTexts, confidence \in Confidences :
       RecognizeResolves(text, confidence)
  \/ \E e \in RecognizeErrors : RecognizeRejects(e)
  \/ TerminateResolves
  \/ \E e \in TerminateErrors : TerminateRejects(e)

(***************************************************************************)
(* Concurrent OCR calls: the host application starts extractTextFromImage  *)
(* for several uploads at once.  Only what concerns the engine instances   *)
(* is kept: which call created, uses and terminates which engine.          *)
(***************************************************************************)
Calls == 1..NumCalls

NewEngine(c) == [creator |-> c, users |-> {}, terminators |-> {},
                 terminated |-> FALSE, usedAfterTerminate |-> FALSE]

\* WorkerRef with worker declared at module level: every call reads the
\* engine created last
WorkerRef_Shared(workers, created, c) == created

\* let worker = null inside the function: a call reads its own variable
WorkerRef(workers, created, c) == workers[c]

ConcQuiet ==
  /\ cpc = [c \in Calls |-> "idle"]
  /\ cworker = [c \in Calls |-> 0]
  /\ engines = <<>>

\* extractTextFromImage is entered: worker = null, createWorker is awaited
ConcCall(c) ==
  /\ cpc[c] \in {"idle", "done"}
  /\ Len(engines) < MaxEngines
  /\ cpc' = [cpc EXCEPT ![c] = "create"]
  /\ cworker' = [cworker EXCEPT ![c] = 0]
  /\ UNCHANGED <<engines, vars, aiVars, appVars>>

\* createWorker resolves with a new engine, assigned to worker; recognize is
\* called on worker
ConcCreateWorkerResolves(c) ==
  /\ cpc[c] = "create"
  /\ LET id == Len(engines) + 1
         workers == [cworker EXCEPT ![c] = id]
         made == Append(engines, NewEngine(c))
         w == WorkerRef(workers, id, c)
     IN /\ cworker' = workers
        /\ engines' = [made EXCEPT ![w].users = @ \cup {c},
                                   ![w].usedAfterTerminate = @ \/ made[w].terminated]
  /\ cpc' = [cpc EXCEPT ![c] = "recognize"]
  /\ UNCHANGED <<vars, aiVars, appVars>>

\* createWorker rejects: worker stays null, the finally block terminates nothing
ConcCreateWorkerRejects(c) ==
  /\ cpc[c] = "create"
  /\ cpc' = [cpc EXCEPT ![c] = "done"]
  /\ UNCHANGED <<cworker, engines, vars, aiVars, appVars>>

\* worker.recognize settles (either way); the finally block calls
\* worker.terminate() if (worker)
ConcRecognizeSettles(c) ==
  /\ cpc[c] = "recognize"
  /\ LET w == WorkerRef(cworker, Len(engines), c) IN
       IF w # 0
       THEN /\ engines' = [engines EXCEPT ![w].terminators = @ \cup {c},
                                          ![w].terminated = TRUE]
            /\ cpc' = [cpc EXCEPT ![c] = "terminate"]
       ELSE /\ cpc' = [cpc EXCEPT ![c] = "done"]
            /\ UNCHANGED engines
  /\ UNCHANGED <<cworker, vars, aiVars, appVars>>

\* worker.terminate() settles (either way); the call settles
ConcTerminateSettles(c) ==
  /\ cpc[c] = "terminate"
  /\ cpc' = [cpc EXCEPT ![c] = "done"]
  /\ UNCHANGED <<cworker, engines, vars, aiVars, appVars>>

ConcNext ==
  \/ \E c \in Calls : ConcCall(c)
  \/ \E c \in Calls : ConcCreateWorkerResolves(c)
  \/ \E c \in Calls : ConcCreateWorkerRejects(c)
  \/ \E c \in Calls : ConcRecognizeSettles(c)
  \/ \E c \in Calls : ConcTerminateSettles(c)

(***************************************************************************)
(* utils/aiService.js: callOpenAI, generateSummary, improveSummary.        *)
(***************************************************************************)
\* String.prototype.substring(0, n)
Substring(s, n) == SubSeq(s, 1, IF Len(s) < n THEN Len(s) ELSE n)

\* String.prototype.replace with a global pattern matching the literal from
RECURSIVE ReplaceAll(_, _, _)
ReplaceAll(s, from, to) ==
  IF Len(s) < Len(from) THEN s
  ELSE IF SubSeq(s, 1, Len(from)) = from
       THEN to \o ReplaceAll(SubSeq(s, Len(from) + 1, Len(s)), from, to)
  ELSE SubSeq(s, 1, 1) \o ReplaceAll(SubSeq(s, 2, Len(s)), from, to)

\* replace(/\s+/g, ' '): every run of whitespace becomes one space. The
\* string is collapsed by halves; a run that crosses the seam is one run
RECURSIVE CollapseWhitespace(_)
CollapseWhitespace(s) ==
  IF Len(s) = 0 THEN s
  ELSE IF Len(s) = 1 THEN (IF IsWhitespace(s) THEN " " ELSE s)
  ELSE LET half == Len(s) \div 2
           left == CollapseWhitespace(SubSeq(s, 1, half))
           right == CollapseWhitespace(SubSeq(s, half + 1, Len(s)))
       IN IF SubSeq(left, Len(left), Len(left)) = " " /\ SubSeq(right, 1, 1) = " "
          THEN left \o SubSeq(right, 2, Len(right))
          ELSE left \o right

\* replace(/<[^>]*>/g, '')
RECURSIVE StripTags(_)
StripTags(s) ==
  IF Len(s) = 0 THEN s
  ELSE IF SubSeq(s, 1, 1) = "<" /\ \E j \in 2..Len(s) : SubSeq(s, j, j) = ">"
       THEN LET close == CHOOSE j \in 2..Len(s) :
                           /\ SubSeq(s, j, j) = ">"
                           /\ \A k \in 2..(j - 1) : SubSeq(s, k, k) # ">"
            IN StripTags(SubSeq(s, close + 1, Len(s)))
  ELSE SubSeq(s, 1, 1) \o StripTags(SubSeq(s, 2, Len(s)))

\* The plainText of improveSummary: <br>, <br/>, <br /> and </p> become a
\* newline, other tags are removed, the rest is trimmed (tags in lower case)
PlainText(html) ==
  Trim(StripTags(ReplaceAll(ReplaceAll(ReplaceAll(ReplaceAll(html,
         "<br>", "\n"), "<br/>", "\n"), "<br />", "\n"), "</p>", "\n")))

\* `${response.status}`
Digit(d) == SubSeq("0123456789", d + 1, d + 1)

RECURSIVE NumberText(_)
NumberText(n) == IF n < 10 THEN Digit(n) ELSE NumberText(n \div 10) \o Digit(n % 10)

RECURSIVE Repeat(_, _)
Repeat(s, n) ==
  IF n = 0 THEN ""
  ELSE IF n % 2 = 1 THEN s \o Repeat(s, n - 1)
  ELSE LET half == Repeat(s, n \div 2) IN half \o half

RECURSIVE Pow2(_)
Pow2(n) == IF n = 0 THEN 1 ELSE 2 * Pow2(n - 1)

Retries == 2
MaxInputLength == 12000
PreviewLength == 200
ImprovePreviewLength == 150
BackoffUnit == 1000
NetworkFailure == 0
NoResponse == 1

KeyMissingMsg == "OpenAI API key not found. Please add REACT_APP_OPENAI_API_KEY to your .env file."
NetworkErrorMsg == "Network error: Unable to connect to OpenAI API. Please check your internet connection."
NoResponseMsg == "No response received from OpenAI API"
InvalidKeyMsg == "Invalid OpenAI API key. Please check your credentials."
RateLimitMsg == "OpenAI rate limit exceeded. Please try again in a few minutes."
ServiceErrorMsg == "OpenAI service error. Please try again in a moment."
ApiErrorPrefix == "OpenAI API error: "
InvalidFormatMsg == "Invalid response format from OpenAI API"
EmptySummaryMsg == "OpenAI returned empty summary"
EmptyImprovedMsg == "OpenAI returned empty improved content"
GeneratePrefix == "Failed to generate summary: "
ImprovePrefix == "Failed to improve summary: "
TruncatedMarker == "...[truncated]"

\* Inputs of the service
Statuses == {200, 401, 404, 429, 500, 502, 503}
SummaryTexts ==
  {"Test", "A  \n B", Repeat("Lorem ", 40), Repeat("0123456789", 1200),
   Repeat("0123456789", 1200) \o "end"}
Contents == {"<p>Test</p>", "<p>A<br>B</p>"}
Instructions == {"", "Make it shorter"}
ErrorBodies ==
  {[parses |-> FALSE, hasMessage |-> FALSE, message |-> ""],
   [parses |-> TRUE, hasMessage |-> FALSE, message |-> ""],
   [parses |-> TRUE, hasMessage |-> TRUE, message |-> ""],
   [parses |-> TRUE, hasMessage |-> TRUE, message |-> "The model does not exist"]}
SuccessBodies ==
  {[parses |-> FALSE, hasChoice |-> FALSE, content |-> ""],
   [parses |-> TRUE, hasChoice |-> FALSE, content |-> ""],
   [parses |-> TRUE, hasChoice |-> TRUE, content |-> "  "],
   [parses |-> TRUE, hasChoice |-> TRUE, content |-> " <p>Summary</p>\n"],
   [parses |-> TRUE, hasChoice |-> TRUE, content |-> "<ul><li>Point</li></ul>"],
   [parses |-> TRUE, hasChoice |-> TRUE, content |-> "Overview\n\nFirst\nSecond"]}

\* response.ok
Ok(status) == status >= 200 /\ status <= 299

\* const USE_MOCK_MODE = !OPENAI_API_KEY || process.env.REACT_APP_USE_MOCK_AI === 'true'
UseMockMode(key, mockEnv) == ~key \/ mockEnv

\* The summary generateSummary returns in mock mode
MockSummary(text) ==
  "<p><strong>Document Summary</strong></p>\n<p>This document contains important information regarding "
  \o Trim(CollapseWhitespace(Substring(text, PreviewLength)))
  \o (IF Len(text) > PreviewLength THEN "..." ELSE "")
  \o "</p>\n<p><strong>Key Points:</strong></p>\n<ul>\n  <li>Main topic and context identified from the source material</li>\n  <li>Critical findings and central arguments presented clearly</li>\n  <li>Actionable recommendations and strategic conclusions highlighted</li>\n  <li>Supporting evidence and relevant details appropriately integrated</li>\n</ul>\n<p>The content has been analyzed and summarized to provide a concise overview while preserving essential information and maintaining professional tone.</p>"

\* The content improveSummary returns in mock mode
MockImproved(currentContent, customInstructions) ==
  LET plainText == PlainText(currentContent) IN
  "<p><strong>Enhanced Document Summary</strong></p>\n"
  \o (IF customInstructions # ""
      THEN "<p><em>Improvements applied: " \o customInstructions \o "</em></p>"
      ELSE "")
  \o "\n<p>This refined analysis presents "
  \o Trim(CollapseWhitespace(Substring(plainText, ImprovePreviewLength)))
  \o (IF Len(plainText) > ImprovePreviewLength THEN "..." ELSE "")
  \o " with improved clarity and professional structure.</p>\n<p><strong>Key Highlights:</strong></p>\n<ul>\n  <li>Core concepts articulated with enhanced precision and flow</li>\n  <li>Critical insights presented with improved readability and impact</li>\n  <li>Strategic conclusions refined for maximum clarity and actionability</li>\n  <li>Supporting evidence integrated seamlessly throughout the narrative</li>\n</ul>\n<p>This enhanced version delivers superior comprehension while maintaining accuracy and preserving all essential information from the original content.</p>"

\* TruncateInput that already cuts a text of exactly maxInputLength
TruncateInput_AtLimit(text) ==
  IF Len(text) >= MaxInputLength
  THEN Substring(text, MaxInputLength) \o TruncatedMarker
  ELSE text

\* truncatedText of generateSummary
TruncateInput(text) ==
  IF Len(text) > MaxInputLength
  THEN Substring(text, MaxInputLength) \o TruncatedMarker
  ELSE text

\* The document text placed in the user message of the request
RequestText(fn, text) == IF fn = "generate" THEN TruncateInput(text) ELSE PlainText(text)

\* ShouldRetry that goes on after any non-OK answer while attempts are left
ShouldRetry_AnyError(status, attempt) == ~Ok(status) /\ attempt < Retries

\* if (response.status === 429 && attempt < retries)
ShouldRetry(status, attempt) == status = 429 /\ attempt < Retries

\* Math.pow(2, attempt) * 1000
WaitTime(attempt) == Pow2(attempt) * BackoffUnit

\* RetryAfterFailure that goes on to the next attempt while attempts are left
RetryAfterFailure_WhileAttemptsLeft(attempt) == attempt < Retries

\* catch (error) around fetch: it throws, the loop is never continued
RetryAfterFailure(attempt) == FALSE

\* HttpError that lacks the 429 branch
HttpError_No429(status, body) ==
  IF status = 401 THEN Error(InvalidKeyMsg)
  ELSE IF status = 500 \/ status = 502 \/ status = 503 THEN Error(ServiceErrorMsg)
  ELSE IF body.parses /\ body.hasMessage /\ body.message # ""
       THEN Error(body.message)
  ELSE Error(ApiErrorPrefix \o NumberText(status))

\* HttpError that lacks status 502 in the service-error branch
HttpError_No502(status, body) ==
  IF status = 401 THEN Error(InvalidKeyMsg)
  ELSE IF status = 429 THEN Error(RateLimitMsg)
  ELSE IF status = 500 \/ status = 503 THEN Error(ServiceErrorMsg)
  ELSE IF body.parses /\ body.hasMessage /\ body.message # ""
       THEN Error(body.message)
  ELSE Error(ApiErrorPrefix \o NumberText(status))

\* if (!response.ok): the error thrown for a status and the errorData read
\* (errorData is {} when response.json() rejects)
HttpError(status, body) ==
  IF status = 401 THEN Error(InvalidKeyMsg)
  ELSE IF status = 429 THEN Error(RateLimitMsg)
  ELSE IF status = 500 \/ status = 502 \/ status = 503 THEN Error(ServiceErrorMsg)
  ELSE IF body.parses /\ body.hasMessage /\ body.message # ""
       THEN Error(body.message)
  ELSE Error(ApiErrorPrefix \o NumberText(status))

\* `<p>${summary.replace(/\n\n/g, '</p><p>').replace(/\n/g, '<br>')}</p>`
Paragraphs(summary) ==
  "<p>" \o ReplaceAll(ReplaceAll(summary, "\n\n", "</p><p>"), "\n", "<br>") \o "</p>"

\* The catch block of generateSummary / improveSummary
AiCatch(fn, e) ==
  Error((IF fn = "generate" THEN GeneratePrefix ELSE ImprovePrefix) \o MessageText(e))

\* callOpenAI throws e inside the try block of the exported function
AiFail(e) ==
  /\ aiResult' = <<Rejected(AiCatch(aiFn, e))>>
  /\ aiPc' = "done"

\* callOpenAI returned content: the checks of the exported function
AiReturn(fn, content) ==
  IF content = "" \/ Len(Trim(content)) = 0
  THEN Rejected(AiCatch(fn, Error(IF fn = "generate" THEN EmptySummaryMsg
                                  ELSE EmptyImprovedMsg)))
  ELSE IF ~Includes(content, "<p>") /\ ~Includes(content, "<ul>")
       THEN Resolved(Paragraphs(content))
  ELSE Resolved(content)

NoParses == [ok |-> 0, error |-> 0]

AiIdle ==
  /\ aiPc = "idle"
  /\ aiFn = "generate"
  /\ aiInput = [text |-> "", instructions |-> ""]
  /\ aiAttempt = 0
  /\ aiFetches = 0
  /\ aiFetchLog = <<>>
  /\ aiWaits = <<>>
  /\ aiBody = <<>>
  /\ aiParses = NoParses
  /\ aiRequest = <<>>
  /\ aiResult = <<>>

\* The module is loaded with some environment
AiInit ==
  /\ aiKey \in BOOLEAN
  /\ aiMockEnv \in BOOLEAN
  /\ AiIdle

AiQuiet ==
  /\ aiKey = FALSE
  /\ aiMockEnv = FALSE
  /\ AiIdle

\* An exported function is called: mock mode awaits its timer; otherwise
\* callOpenAI checks the key and issues the first fetch
AiCall(fn, text, instructions) ==
  /\ aiPc \in {"idle", "done"}
  /\ aiFn' = fn
  /\ aiInput' = [text |-> text, instructions |-> instructions]
  /\ aiAttempt' = 0
  /\ aiFetchLog' = <<>>
  /\ aiWaits' = <<>>
  /\ aiBody' = <<>>
  /\ aiParses' = NoParses
  /\ IF UseMockMode(aiKey, aiMockEnv)
     THEN /\ aiPc' = "mock_wait"
          /\ aiFetches' = 0
          /\ aiRequest' = <<>>
          /\ aiResult' = <<>>
     ELSE /\ aiRequest' = <<RequestText(fn, text)>>
          /\ IF ~aiKey
             THEN /\ AiFail(Error(KeyMissingMsg))
                  /\ aiFetches' = 0
             ELSE /\ aiPc' = "fetch"
                  /\ aiFetches' = 1
                  /\ aiResult' = <<>>
  /\ UNCHANGED <<aiKey, aiMockEnv, vars, concVars, appVars>>

\* generateSummary(text)
CallGenerateSummary(text) == AiCall("generate", text, "")

\* improveSummary(currentContent, customInstructions)
CallImproveSummary(currentContent, customInstructions) ==
  AiCall("improve", currentContent, customInstructions)

\* The simulated delay of mock mode elapses
MockElapses ==
  /\ aiPc = "mock_wait"
  /\ aiResult' = <<Resolved(IF aiFn = "generate" THEN MockSummary(aiInput.text)
                            ELSE MockImproved(aiInput.text, aiInput.instructions))>>
  /\ aiPc' = "done"
  /\ UNCHANGED <<aiKey, aiMockEnv, aiFn, aiInput, aiAttempt, aiFetches, aiFetchLog,
                 aiWaits, aiBody, aiParses, aiRequest,
                 vars, concVars, appVars>>

\* fetch rejects
FetchRejects ==
  /\ aiPc = "fetch"
  /\ aiFetchLog' = Append(aiFetchLog, NetworkFailure)
  /\ IF RetryAfterFailure(aiAttempt)
     THEN /\ aiAttempt' = aiAttempt + 1
          /\ aiFetches' = aiFetches + 1
          /\ UNCHANGED <<aiPc, aiResult>>
     ELSE /\ AiFail(Error(NetworkErrorMsg))
          /\ UNCHANGED <<aiAttempt, aiFetches>>
  /\ UNCHANGED <<aiKey, aiMockEnv, aiFn, aiInput, aiWaits, aiBody, aiParses, aiRequest,
                 vars, concVars, appVars>>

\* fetch resolves without a response object
FetchResolvesNothing ==
  /\ aiPc = "fetch"
  /\ aiFetchLog' = Append(aiFetchLog, NoResponse)
  /\ AiFail(Error(NoResponseMsg))
  /\ UNCHANGED <<aiKey, aiMockEnv, aiFn, aiInput, aiAttempt, aiFetches, aiWaits,
                 aiBody, aiParses, aiRequest,
                 vars, concVars, appVars>>

\* fetch resolves with a response: back off on a retried 429, else read the
\* error body of a non-OK response or the body of an OK response
FetchResolves(status) ==
  /\ aiPc = "fetch"
  /\ aiFetchLog' = Append(aiFetchLog, status)
  /\ IF ShouldRetry(status, aiAttempt)
     THEN /\ aiWaits' = Append(aiWaits, WaitTime(aiAttempt))
          /\ aiPc' = "backoff"
          /\ UNCHANGED aiParses
     ELSE IF ~Ok(status)
     THEN /\ aiPc' = "error_body"
          /\ aiParses' = [aiParses EXCEPT !.error = @ + 1]
          /\ UNCHANGED aiWaits
     ELSE /\ aiPc' = "success_body"
          /\ aiParses' = [aiParses EXCEPT !.ok = @ + 1]
          /\ UNCHANGED aiWaits
  /\ UNCHANGED <<aiKey, aiMockEnv, aiFn, aiInput, aiAttempt, aiFetches, aiBody,
                 aiResult, aiRequest,
                 vars, concVars, appVars>>

\* The backoff timer fires: continue with the next attempt's fetch
BackoffElapses ==
  /\ aiPc = "backoff"
  /\ aiAttempt' = aiAttempt + 1
  /\ aiFetches' = aiFetches + 1
  /\ aiPc' = "fetch"
  /\ UNCHANGED <<aiKey, aiMockEnv, aiFn, aiInput, aiFetchLog, aiWaits, aiBody,
                 aiParses, aiResult, aiRequest,
                 vars, concVars, appVars>>

\* response.json() of a non-OK response settles; the mapped error is thrown
ErrorBodyRead(body) ==
  /\ aiPc = "error_body"
  /\ aiBody' = <<body>>
  /\ AiFail(HttpError(aiFetchLog[Len(aiFetchLog)], body))
  /\ UNCHANGED <<aiKey, aiMockEnv, aiFn, aiInput, aiAttempt, aiFetches, aiFetchLog,
                 aiWaits, aiParses, aiRequest,
                 vars, concVars, appVars>>

\* response.json() of an OK response settles: the structure check and
\* return data.choices[0].message.content.trim()
SuccessBodyRead(body) ==
  /\ aiPc = "success_body"
  /\ aiBody' = <<body>>
  /\ IF ~body.parses \/ ~body.hasChoice
     THEN AiFail(Error(InvalidFormatMsg))
     ELSE /\ aiResult' = <<AiReturn(aiFn, Trim(body.content))>>
          /\ aiPc' = "done"
  /\ UNCHANGED <<aiKey, aiMockEnv, aiFn, aiInput, aiAttempt, aiFetches, aiFetchLog,
                 aiWaits, aiParses, aiRequest,
                 vars, concVars, appVars>>

AiNext ==
  \/ \E text \in SummaryTexts : CallGenerateSummary(text)
  \/ \E content \in Contents, instructions \in Instructions :
       CallImproveSummary(content, instructions)
  \/ MockElapses
  \/ FetchRejects
  \/ FetchResolvesNothing
  \/ \E status \in Statuses : FetchResolves(status)
  \/ BackoffElapses
  \/ \E body \in ErrorBodies : ErrorBodyRead(body)
  \/ \E body \in SuccessBodies : SuccessBodyRead(body)

(***************************************************************************)
(* App.jsx with its DocumentUploader, RichTextEditor and ImprovementModal. *)
(* A user event runs its handler up to the first await; React renders      *)
(* before the next event, so a handler reads the state the events before   *)
(* it have set.                                                            *)
(***************************************************************************)
JPEG_TYPE == "image/jpeg"
PNG_TYPE == "image/png"
SUPPORTED_FILE_TYPES == {PDF_TYPE, DOCX_TYPE, PNG_TYPE, JPEG_TYPE}
MAX_FILE_SIZE == 10 * 1024 * 1024

UnsupportedFileMsg == "Unsupported file type. Please upload a PDF, DOCX, PNG, or JPEG file."
FileTooLargeMsg == "File size exceeds 10MB limit. Please upload a smaller file."
NoTextExtractedMsg == "No text could be extracted from the file. Please ensure the file contains readable text."
SummaryFailedMsg == "Failed to generate summary. Please try again."
NoContentMsg == "No content to improve. Please upload a document first."
ImproveFailedMsg == "Failed to improve content. Please try again."

\* Inputs of the application
UploadTypes == {PDF_TYPE, DOCX_TYPE, PNG_TYPE, JPEG_TYPE, "text/plain"}
UploadSizes == {MAX_FILE_SIZE, MAX_FILE_SIZE + 1}
Files == [type : UploadTypes, size : UploadSizes]
NoFile == [type |-> "", size |-> -1]
DropPayloads == Files \cup {NoFile}
ProgressValues == {UndefinedProgress, 0, 4, 505}
EditedContents == {"", " ", "<p>Edited</p>"}
TypedInstructions == {"", "  ", " Make it shorter "}

\* What extractTextFromFile can settle with for a file of this type: the
\* image path never resolves with blank text, the DOCX path returns the
\* value verbatim, the PDF path returns '' for a document without text
ExtractionOutcomes(type) ==
  {Resolved(t) : t \in (IF Decoder(type) = "ocr" THEN {Trim("  Invoice #123  ")}
                        ELSE IF Decoder(type) = "docx" THEN {"", "  ", "Hello World"}
                        ELSE {"", "Hello World"})}
  \cup {Rejected(WrapExtract(Error("Invalid file structure")))}

AllExtractionOutcomes == UNION {ExtractionOutcomes(type) : type \in SUPPORTED_FILE_TYPES}

\* What generateSummary can settle with
GenerateOutcomes ==
  {AiReturn("generate", "<p>Summary</p>"),
   Rejected(AiCatch("generate", Error(NetworkErrorMsg)))}

\* What improveSummary can settle with
ImproveOutcomes ==
  {AiReturn("improve", "<p>Improved</p>"),
   Rejected(AiCatch("improve", Error(RateLimitMsg)))}

\* A blank test that does not trim
Blank_Untrimmed(s) == s = ""

\* !s || s.trim().length === 0
Blank(s) == s = "" \/ Len(Trim(s)) = 0

\* Math.round(progressData.progress * 100), progress given in thousandths
RoundPercent(p) == (p + 5) \div 10

\* setError(err.message)
ErrorShown(e) == IF e.defined THEN <<e.message>> ELSE <<>>

\* const isAnyProcessing = isProcessing || isImproving
IsAnyProcessing == isProcessing \/ isImproving

\* The prop disabled of DocumentUploader
Disabled == IsAnyProcessing

\* {editorContent && (<section className="editor-section"> ...)}
EditorShown == editorContent # ""

AppInit ==
  /\ uploadedFile = <<>>
  /\ extractedText = ""
  /\ editorContent = ""
  /\ isProcessing = FALSE
  /\ isImproving = FALSE
  /\ error = <<>>
  /\ processingStage = ""
  /\ showImprovementModal = FALSE
  /\ ocrProgress = 0
  /\ upPc = "idle"
  /\ upText = ""
  /\ extraction = <<>>
  /\ generateCalls = <<>>
  /\ summarization = <<>>
  /\ impPc = "idle"
  /\ improveArgs = <<>>
  /\ improvement = <<>>
  /\ isDragging = FALSE
  /\ validationError = <<>>
  /\ dialogOpen = FALSE
  /\ lastDrop = "none"

\* handleFileUpload(file) up to await extractTextFromFile(file, handleOcrProgress)
HandleFileUpload(f) ==
  /\ error' = <<>>
  /\ isProcessing' = TRUE
  /\ processingStage' = "extracting"
  /\ uploadedFile' = <<f>>
  /\ extractedText' = ""
  /\ editorContent' = ""
  /\ ocrProgress' = 0
  /\ upPc' = "extracting"
  /\ upText' = ""
  /\ extraction' = <<>>
  /\ generateCalls' = <<>>
  /\ summarization' = <<>>
  /\ UNCHANGED <<isImproving, showImprovementModal, improveRunVars>>

\* ValidationResult that checks the size before the type
ValidationResult_SizeFirst(f) ==
  IF f.size > MAX_FILE_SIZE THEN <<FileTooLargeMsg>>
  ELSE IF f.type \notin SUPPORTED_FILE_TYPES THEN <<UnsupportedFileMsg>>
  ELSE <<>>

\* validateFile: the validation error it sets; <<>> when it returns true
ValidationResult(f) ==
  IF f.type \notin SUPPORTED_FILE_TYPES THEN <<UnsupportedFileMsg>>
  ELSE IF f.size > MAX_FILE_SIZE THEN <<FileTooLargeMsg>>
  ELSE <<>>

\* handleFile: if (validateFile(file)) onFileUpload(file)
HandleFile(f) ==
  /\ validationError' = ValidationResult(f)
  /\ IF ValidationResult(f) = <<>>
     THEN HandleFileUpload(f)
     ELSE UNCHANGED <<appStateVars, uploadRunVars, improveRunVars>>

\* DropGuard that lets a drop through while the uploader is disabled
DropGuard_Unguarded(disabled) == TRUE

\* handleDrop: if (disabled) return
DropGuard(disabled) == ~disabled

\* handleDragEnter
HandleDragEnter ==
  /\ ~dialogOpen
  /\ isDragging' = (IF ~Disabled THEN TRUE ELSE isDragging)
  /\ lastDrop' = "none"
  /\ UNCHANGED <<validationError, dialogOpen, appStateVars, uploadRunVars,
                 improveRunVars, vars, concVars, aiVars>>

\* handleDragLeave
HandleDragLeave ==
  /\ ~dialogOpen
  /\ isDragging' = FALSE
  /\ lastDrop' = "none"
  /\ UNCHANGED <<validationError, dialogOpen, appStateVars, uploadRunVars,
                 improveRunVars, vars, concVars, aiVars>>

\* handleDrop with event.dataTransfer.files?.[0] = payload
HandleDrop(payload) ==
  /\ ~dialogOpen
  /\ isDragging' = FALSE
  /\ lastDrop' = (IF Disabled THEN "disabled" ELSE "enabled")
  /\ IF DropGuard(Disabled) /\ payload # NoFile
     THEN HandleFile(payload)
     ELSE UNCHANGED <<validationError, appStateVars, uploadRunVars,
                      improveRunVars>>
  /\ UNCHANGED <<dialogOpen, vars, concVars, aiVars>>

\* handleClick: the file chooser opens unless disabled
HandleClick ==
  /\ ~dialogOpen
  /\ dialogOpen' = ~Disabled
  /\ lastDrop' = "none"
  /\ UNCHANGED <<isDragging, validationError, appStateVars, uploadRunVars,
                 improveRunVars, vars, concVars, aiVars>>

\* handleFileInputChange: the user picked a file in the chooser
HandleFileInputChange(f) ==
  /\ dialogOpen
  /\ dialogOpen' = FALSE
  /\ HandleFile(f)
  /\ lastDrop' = "none"
  /\ UNCHANGED <<isDragging, vars, concVars, aiVars>>

\* The user closes the chooser without a file: no change event
ChooserCancelled ==
  /\ dialogOpen
  /\ dialogOpen' = FALSE
  /\ lastDrop' = "none"
  /\ UNCHANGED <<isDragging, validationError, appStateVars, uploadRunVars,
                 improveRunVars, vars, concVars, aiVars>>

\* handleOcrProgress(progressData), called by the OCR decoder while the
\* extraction of an image is pending
HandleOcrProgress(p) ==
  /\ upPc = "extracting"
  /\ Decoder(uploadedFile[1].type) = "ocr"
  /\ ocrProgress' = (IF p # UndefinedProgress /\ p # 0 THEN RoundPercent(p)
                     ELSE ocrProgress)
  /\ lastDrop' = "none"
  /\ UNCHANGED <<uploadedFile, extractedText, editorContent, isProcessing, isImproving,
                 error, processingStage, showImprovementModal, uploadRunVars,
                 improveRunVars, isDragging, validationError, dialogOpen, vars, concVars, aiVars>>

\* The catch and finally blocks of handleFileUpload
UploadFails(e) ==
  /\ error' = ErrorShown(e)
  /\ processingStage' = ""
  /\ ocrProgress' = 0
  /\ isProcessing' = FALSE
  /\ upPc' = "idle"

\* await extractTextFromFile settles: the empty-text check, then
\* generateSummary(text) is called
ExtractSettles(p) ==
  /\ upPc = "extracting"
  /\ p \in ExtractionOutcomes(uploadedFile[1].type)
  /\ extraction' = <<p>>
  /\ IF ~p.ok
     THEN /\ UploadFails(p.error)
          /\ UNCHANGED <<extractedText, upText, generateCalls>>
     ELSE IF Blank(p.value)
     THEN /\ UploadFails(Error(NoTextExtractedMsg))
          /\ upText' = p.value
          /\ UNCHANGED <<extractedText, generateCalls>>
     ELSE /\ upText' = p.value
          /\ extractedText' = p.value
          /\ ocrProgress' = 0
          /\ processingStage' = "summarizing"
          /\ generateCalls' = Append(generateCalls, p.value)
          /\ upPc' = "summarizing"
          /\ UNCHANGED <<error, isProcessing>>
  /\ lastDrop' = "none"
  /\ UNCHANGED <<uploadedFile, editorContent, isImproving, showImprovementModal,
                 summarization, improveRunVars, isDragging, validationError, dialogOpen, vars, concVars, aiVars>>

\* await generateSummary settles
GenerateSettles(p) ==
  /\ upPc = "summarizing"
  /\ summarization' = <<p>>
  /\ IF ~p.ok
     THEN /\ UploadFails(p.error)
          /\ UNCHANGED editorContent
     ELSE IF Blank(p.value)
     THEN /\ UploadFails(Error(SummaryFailedMsg))
          /\ UNCHANGED editorContent
     ELSE /\ editorContent' = p.value
          /\ processingStage' = ""
          /\ isProcessing' = FALSE
          /\ upPc' = "idle"
          /\ UNCHANGED <<error, ocrProgress>>
  /\ lastDrop' = "none"
  /\ UNCHANGED <<uploadedFile, extractedText, isImproving, showImprovementModal,
                 upText, extraction, generateCalls, improveRunVars, isDragging, validationError, dialogOpen,
                 vars, concVars, aiVars>>

\* handleImproveClick: the button is rendered with the editor and disabled
\* while isAnyProcessing
HandleImproveClick ==
  /\ ~dialogOpen
  /\ EditorShown
  /\ ~IsAnyProcessing
  /\ IF Blank(editorContent)
     THEN /\ error' = <<NoContentMsg>>
          /\ UNCHANGED showImprovementModal
     ELSE /\ showImprovementModal' = TRUE
          /\ UNCHANGED error
  /\ lastDrop' = "none"
  /\ UNCHANGED <<uploadedFile, extractedText, editorContent, isProcessing, isImproving,
                 processingStage, ocrProgress, uploadRunVars, improveRunVars,
                 isDragging, validationError, dialogOpen, vars, concVars, aiVars>>

\* onCancel of the modal: overlay, close button, Cancel button or Escape
CancelModal ==
  /\ ~dialogOpen
  /\ showImprovementModal
  /\ showImprovementModal' = FALSE
  /\ lastDrop' = "none"
  /\ UNCHANGED <<uploadedFile, extractedText, editorContent, isProcessing, isImproving,
                 error, processingStage, ocrProgress, uploadRunVars, improveRunVars,
                 isDragging, validationError, dialogOpen, vars, concVars, aiVars>>

\* handleSubmit of the modal calls onImprove(instructions.trim());
\* handleImproveWithAI runs up to await improveSummary(editorContent, instructions)
SubmitModal(typed) ==
  /\ ~dialogOpen
  /\ showImprovementModal
  /\ showImprovementModal' = FALSE
  /\ error' = <<>>
  /\ isImproving' = TRUE
  /\ improveArgs' = <<[content |-> editorContent, instructions |-> Trim(typed)]>>
  /\ improvement' = <<>>
  /\ impPc' = "improving"
  /\ lastDrop' = "none"
  /\ UNCHANGED <<uploadedFile, extractedText, editorContent, isProcessing,
                 processingStage, ocrProgress, uploadRunVars, isDragging, validationError, dialogOpen, vars,
                 concVars, aiVars>>

\* await improveSummary settles
ImproveSettles(p) ==
  /\ impPc = "improving"
  /\ improvement' = <<p>>
  /\ IF ~p.ok
     THEN /\ error' = ErrorShown(p.error)
          /\ UNCHANGED editorContent
     ELSE IF Blank(p.value)
     THEN /\ error' = <<ImproveFailedMsg>>
          /\ UNCHANGED editorContent
     ELSE /\ editorContent' = p.value
          /\ UNCHANGED error
  /\ isImproving' = FALSE
  /\ impPc' = "idle"
  /\ lastDrop' = "none"
  /\ UNCHANGED <<uploadedFile, extractedText, isProcessing, processingStage,
                 showImprovementModal, ocrProgress, improveArgs, uploadRunVars,
                 isDragging, validationError, dialogOpen, vars, concVars, aiVars>>

\* handleEditorChange(content): the editor is rendered when editorContent is
\* set and contentEditable unless isAnyProcessing
HandleEditorChange(content) ==
  /\ ~dialogOpen
  /\ EditorShown
  /\ ~IsAnyProcessing
  /\ editorContent' = content
  /\ lastDrop' = "none"
  /\ UNCHANGED <<uploadedFile, extractedText, isProcessing, isImproving, error,
                 processingStage, showImprovementModal, ocrProgress, uploadRunVars,
                 improveRunVars, isDragging, validationError, dialogOpen, vars, concVars, aiVars>>

AppNext ==
  \/ HandleDragEnter
  \/ HandleDragLeave
  \/ \E payload \in DropPayloads : HandleDrop(payload)
  \/ HandleClick
  \/ \E f \in Files : HandleFileInputChange(f)
  \/ ChooserCancelled
  \/ \E p \in ProgressValues : HandleOcrProgress(p)
  \/ \E p \in AllExtractionOutcomes : ExtractSettles(p)
  \/ \E p \in GenerateOutcomes : GenerateSettles(p)
  \/ HandleImproveClick
  \/ CancelModal
  \/ \E typed \in TypedInstructions : SubmitModal(typed)
  \/ \E p \in ImproveOutcomes : ImproveSettles(p)
  \/ \E content \in EditedContents : HandleEditorChange(content)

(***************************************************************************)
(* Specifications.                                                         *)
(***************************************************************************)
\* The module is loaded without an API key; nothing has been called
InitPipeline == Init /\ ConcQuiet /\ AiQuiet /\ AppInit

\* The module is loaded with any environment; nothing has been called
InitAi == Init /\ ConcQuiet /\ AiInit /\ AppInit

Spec == InitPipeline /\ [][Next]_allVars

SpecConc == InitPipeline /\ [][ConcNext]_allVars

SpecAi == InitAi /\ [][AiNext]_allVars

SpecApp == InitPipeline /\ [][AppNext]_allVars

\* What the runtime does for a running callOpenAI: fetch settles, the
\* backoff timer fires, response.json() settles
CallOpenAIProgress ==
  \/ FetchRejects
  \/ FetchResolvesNothing
  \/ \E status \in Statuses : FetchResolves(status)
  \/ BackoffElapses
  \/ \E body \in ErrorBodies : ErrorBodyRead(body)
  \/ \E body \in SuccessBodies : SuccessBodyRead(body)

\* The AI service with fetches and timers of callOpenAI that settle
SpecAiLive == InitAi /\ [][AiNext]_allVars /\ WF_allVars(CallOpenAIProgress)

(***************************************************************************)
(* Properties of the extraction pipeline.                                  *)
(***************************************************************************)
Settled == pc = "done" /\ result # <<>>
FileCall == entry = "file"

\* The text a PDF's pages give when joined: fragments by one space, pages by
\* one blank line.
JoinedPages(doc) == Join([k \in 1..Len(doc) |-> Join(doc[k], " ")], "\n\n")

\* Number of newline characters in s
Newlines(s) == Cardinality({i \in 1..Len(s) : SubSeq(s, i, i) = "\n"})

\* Pages of doc that carry visible text
VisiblePages(doc) == {k \in 1..Len(doc) : Trim(Join(doc[k], " ")) # ""}

SetMin(S) == CHOOSE x \in S : \A y \in S : x <= y
SetMax(S) == CHOOSE x \in S : \A y \in S : x >= y

\* C1 (as claimed): every settled call of the OCR decoder, resolved or
\* rejected and whatever stage failed, has called worker.terminate exactly once.
C1_TerminateExactlyOnce ==
  (Settled /\ createArgs # <<>>) => terminateCalls = 1

\* C2 (as claimed): when recognition resolves with empty or whitespace-only
\* text, the OCR decoder rejects with the 'No text could be recognized' error,
\* not with the RecognitionFailed message.
C2_EmptyTextIsNoTextRecognized ==
  (Settled /\ FileCall /\ outcome # <<>> /\ Trim(outcome[1].text) = "") =>
     /\ ~pending[1].ok
     /\ Includes(pending[1].error.message, NoTextMsg)
     /\ ~Includes(pending[1].error.message, RecognitionFailedMsg)
     /\ Includes(result[1].error.message, NoTextMsg)

\* C3: a call of extractTextFromFile enters exactly the decoder its declared
\* type selects (PDF by equality, DOCX by equality, OCR by the image/ prefix),
\* enters no other decoder, and enters no decoder (engine, recognition) twice.
C3_ExactlyOneDecoder ==
  (FileCall /\ pc # "idle") =>
     LET isPdf == file = "application/pdf"
         isDocx == file = "application/vnd.openxmlformats-officedocument.wordprocessingml.document"
         isImage == Len(file) >= 6 /\ SubSeq(file, 1, 6) = "image/"
     IN /\ runs.pdf = (IF isPdf THEN 1 ELSE 0)
        /\ runs.docx = (IF isDocx THEN 1 ELSE 0)
        /\ runs.ocr = (IF isImage THEN 1 ELSE 0)
        /\ runs.pdf + runs.docx + runs.ocr <= 1
        /\ (pc \in {"pdf_load", "pdf_page"} \/ pdf # <<>>) => isPdf
        /\ pc = "docx_load" => isDocx
        /\ (pc \in {"ocr_create", "ocr_recognize", "ocr_terminate"} \/ pending # <<>>)
              => isImage
        /\ Len(createArgs) = runs.ocr
        /\ recognizeCalls <= runs.ocr
        /\ terminateCalls <= runs.ocr

C3_Witness ==
  /\ Settled /\ FileCall /\ file = "image/png"
  /\ runs = [pdf |-> 0, docx |-> 0, ocr |-> 1]
  /\ recognizeCalls = 1
  /\ result[1].ok

\* C4: for a type that is not the PDF type, not the DOCX type and does not
\* start with image/, extractTextFromFile rejects with the Unsupported file
\* type error; no decoder is entered and no progress event is emitted.
C4_UnsupportedType ==
  (FileCall /\ pc # "idle" /\ file # PDF_TYPE /\ file # DOCX_TYPE
     /\ ~StartsWith(file, "image/")) =>
     /\ pc = "done"
     /\ result = <<Rejected(Error("Failed to extract text: Unsupported file type"))>>
     /\ runs = NoRuns
     /\ createArgs = <<>> /\ recognizeCalls = 0 /\ terminateCalls = 0
     /\ pdf = <<>> /\ pending = <<>>
     /\ engineLog = <<>> /\ sink = <<>>

C4_Witness ==
  /\ Settled /\ FileCall /\ file = "text/plain" /\ onProgress
  /\ ~result[1].ok

\* C5: every failure of a decoder or of the type check reaches the caller of
\* extractTextFromFile as an error whose message is 'Failed to extract text: '
\* followed by the message of the original failure, and carries no text; a
\* failed decoder never yields a resolved call.
C5_UniformFailure ==
  (Settled /\ FileCall) =>
     /\ (pending # <<>> /\ ~pending[1].ok) => ~result[1].ok
     /\ ~result[1].ok =>
          /\ decoderError # <<>>
          /\ runs.ocr = 1 => decoderError[1] = pending[1].error
          /\ runs = NoRuns => decoderError[1] = Error("Unsupported file type")
          /\ runs.pdf = 1 => decoderError[1] \in PdfErrors
          /\ runs.docx = 1 => decoderError[1] \in DocxErrors
          /\ result[1] = [ok |-> FALSE,
                          error |-> [defined |-> TRUE,
                                     message |-> "Failed to extract text: "
                                                   \o MessageText(decoderError[1])]]

C5_Witness ==
  /\ Settled /\ FileCall /\ runs.pdf = 1
  /\ pageNum = 2 /\ fullText # ""
  /\ ~result[1].ok
  /\ result[1].error.message = "Failed to extract text: Invalid PDF structure"

\* C6: a failing worker.terminate is only logged: the call settles exactly as
\* its try/catch completed, with the recognized text if recognition succeeded
\* and with its primary error if it failed, the same as after a successful
\* terminate.
C6_TerminateFailureSwallowed ==
  (Settled /\ termOutcome # "none") =>
     IF pending[1].ok
     THEN result[1] = pending[1]
     ELSE /\ ~result[1].ok
          /\ result[1].error.message =
               (IF FileCall THEN "Failed to extract text: " ELSE "")
                  \o pending[1].error.message

C6_Witness ==
  /\ Settled /\ termOutcome = "failed"
  /\ result[1].ok /\ result[1].value = "Invoice #123"

\* C7 (as claimed): extractTextFromImage surfaces RecognitionFailed exactly
\* when the recognition stage failed, and every other failure (creation,
\* validation of an empty result) as 'OCR processing failed: ' followed by the
\* original message.
C7_RecognitionFailedIffRecognitionStage ==
  (Settled /\ FileCall /\ failStage # "none") =>
     IF failStage = "recognize"
     THEN pending[1].error.message = RecognitionFailedMsg
     ELSE pending[1].error.message = OcrPrefix \o MessageText(engineError[1])

\* C8 (as claimed): every text extractTextFromFile resolves with is non-empty
\* and has no leading or trailing whitespace.
C8_AllTextNonEmptyTrimmed ==
  (Settled /\ FileCall /\ result[1].ok) =>
     /\ result[1].value # ""
     /\ Trim(result[1].value) = result[1].value

\* C8 (amended): a text resolved on the image path is non-empty and has no
\* leading or trailing whitespace; a text resolved on the PDF path has no
\* leading or trailing whitespace (it may be empty); re-trimming either is a
\* no-op.
C8_ImageAndPdfTextTrimmed ==
  (Settled /\ FileCall /\ result[1].ok /\ runs.docx = 0) =>
     LET v == result[1].value IN
       /\ runs.ocr = 1 => Len(v) > 0
       /\ Len(v) > 0 => /\ ~IsWhitespace(SubSeq(v, 1, 1))
                        /\ ~IsWhitespace(SubSeq(v, Len(v), Len(v)))
       /\ TrimEnd(TrimStart(v)) = v

C8_Witness ==
  /\ Settled /\ FileCall /\ runs.ocr = 1
  /\ outcome = <<[text |-> "  Invoice #123  ", confidence |-> 60]>>
  /\ result = <<Resolved("Invoice #123")>>

\* C9 (as claimed): in the text returned for an N-page PDF every page k < N
\* appears as its fragments joined by single spaces, followed by exactly two
\* newlines, followed by the text of page k+1.
C9_PagesJoinedInOrder ==
  (Settled /\ runs.pdf = 1 /\ result[1].ok) =>
     \A k \in 1..(Len(pdf[1]) - 1) :
        Includes(result[1].value,
                 Join(pdf[1][k], " ") \o "\n\n" \o Join(pdf[1][k + 1], " "))

\* C9 (amended): the text returned for an N-page PDF is the pages' texts in
\* ascending page order, fragments joined by single spaces, consecutive pages
\* separated by exactly two newlines, with the leading and trailing whitespace
\* of the whole text removed.
C9_PagesJoinedInOrderTrimmed ==
  (Settled /\ runs.pdf = 1 /\ result[1].ok) =>
     result[1].value = TrimEnd(TrimStart(JoinedPages(pdf[1])))

C9_Witness ==
  /\ Settled /\ runs.pdf = 1
  /\ pdf = <<(<< <<"Hello", "World">>, <<"Foo">> >>)>>
  /\ result = <<Resolved("Hello World\n\nFoo")>>

\* C10 (as claimed): every page, also one without fragments, keeps its
\* separator in the returned text: an N-page PDF returns N-1 blank-line
\* separators.
C10_EmptyPagesKeepSpacing ==
  (Settled /\ runs.pdf = 1 /\ result[1].ok) =>
     Newlines(result[1].value) = 2 * (Len(pdf[1]) - 1)

\* C10 (amended): a page without fragments contributes an empty segment and
\* its separator to the joined text; in the returned text the separators of
\* all pages from the first to the last page with visible text are kept (an
\* empty page between them adds two newlines), and empty pages before the
\* first or after the last visible page are removed by the final trim.
C10_InnerEmptyPagesKeepSpacing ==
  (Settled /\ runs.pdf = 1 /\ result[1].ok) =>
     LET visible == VisiblePages(pdf[1]) IN
       IF visible = {}
       THEN result[1].value = ""
       ELSE Newlines(result[1].value) = 2 * (SetMax(visible) - SetMin(visible))

C10_Witness ==
  /\ Settled /\ runs.pdf = 1
  /\ pdf = <<(<< <<"Hello", "World">>, <<>>, <<"Foo">> >>)>>
  /\ result = <<Resolved("Hello World\n\n\n\nFoo")>>

\* The events of log whose status is one of the four stages
RECURSIVE StagedEvents(_)
StagedEvents(log) ==
  IF Len(log) = 0 THEN <<>>
  ELSE (IF log[1].status \in {"loading tesseract core", "initializing tesseract",
                               "loading language traineddata", "recognizing text"}
        THEN <<log[1]>> ELSE <<>>) \o StagedEvents(Tail(log))

\* C11: a recognition outcome with non-empty trimmed text and a confidence
\* below 60 resolves with the trimmed text, as it does with a confidence of 60
\* or more; only the advisory is logged.
C11_LowConfidenceResolves ==
  (Settled /\ FileCall /\ outcome # <<>> /\ Len(TrimEnd(TrimStart(outcome[1].text))) > 0) =>
     /\ result = <<[ok |-> TRUE, value |-> TrimEnd(TrimStart(outcome[1].text))]>>
     /\ warned = (outcome[1].confidence < 60)

C11_Witness ==
  /\ Settled /\ FileCall
  /\ outcome = <<[text |-> "hello", confidence |-> 42]>>
  /\ warned
  /\ result = <<Resolved("hello")>>

\* C12: during a single-language OCR call with a progress sink, the sink
\* receives exactly the engine's events whose status is one of the four stages,
\* each once and in the engine's order (the progress of a recognizing event as
\* it is, that of a loading or initializing event with a missing value as 0);
\* events of any other status are not forwarded.
C12_SinkGetsStagedEventsInOrder ==
  (FileCall /\ onProgress) =>
     LET staged == StagedEvents(engineLog) IN
       /\ Len(sink) = Len(staged)
       /\ \A i \in 1..Len(sink) :
            /\ sink[i].status = staged[i].status
            /\ sink[i].progress =
                 (IF staged[i].status # "recognizing text" /\ staged[i].progress = UndefinedProgress
                  THEN 0 ELSE staged[i].progress)

C12_Witness ==
  /\ Settled /\ FileCall /\ onProgress
  /\ engineLog = <<[status |-> "initialized api", progress |-> 50],
                   [status |-> "recognizing text", progress |-> 50]>>
  /\ sink = <<[status |-> "recognizing text", progress |-> 50]>>

\* C14: an empty DOCX body makes extraction resolve with the empty string: the
\* DOCX decoder returns the extracted value as it is, untrimmed and
\* unvalidated, and fails only when the library fails; an empty OCR result is
\* an error.
C14_DocxVerbatim ==
  (Settled /\ FileCall) =>
     /\ (runs.docx = 1 /\ result[1].ok) => result[1].value \in DocxValues
     /\ (runs.docx = 1 /\ ~result[1].ok) => decoderError[1] \in DocxErrors
     /\ (runs.ocr = 1 /\ outcome # <<>> /\ outcome[1].text = "") => ~result[1].ok

C14_Witness ==
  /\ Settled /\ FileCall /\ runs.docx = 1
  /\ result = <<Resolved("")>>

\* C15: the progress sink passed to extractTextFromFile is invoked only on the
\* image path: for PDF, DOCX and unsupported types it receives nothing.
C15_SinkOnlyOnImagePath ==
  (FileCall /\ ~(Len(file) >= 6 /\ SubSeq(file, 1, 6) = "image/")) =>
     /\ sink = <<>>
     /\ engineLog = <<>>

C15_Witness ==
  /\ Settled /\ FileCall /\ onProgress
  /\ file = "application/pdf"
  /\ result[1].ok
  /\ sink = <<>>

\* C16: extractTextFromImageMultiLang forwards every engine event to the sink
\* whatever its status, makes one createWorker call for the whole language
\* list joined by '+' and at most one recognize call, and wraps every failure
\* as 'OCR processing failed: ' followed by the original message.
C16_MultiLang ==
  (entry = "multilang" /\ pc # "idle") =>
     /\ Len(createArgs) = 1
     /\ createArgs[1] \in {"eng", "eng+fra"}
     /\ recognizeCalls <= 1
     /\ onProgress =>
          /\ Len(sink) = Len(engineLog)
          /\ \A i \in 1..Len(sink) : sink[i].status = engineLog[i].status
     /\ ~onProgress => sink = <<>>
     /\ (Settled /\ failStage # "none") =>
          result = <<[ok |-> FALSE,
                      error |-> [defined |-> TRUE,
                                 message |-> "OCR processing failed: "
                                               \o MessageText(engineError[1])]]>>

C16_Witness ==
  /\ Settled /\ entry = "multilang" /\ onProgress
  /\ createArgs = <<"eng+fra">>
  /\ recognizeCalls = 1
  /\ Len(sink) = 2 /\ sink[1].status = "initialized api"
  /\ result = <<Rejected(Error("OCR processing failed: No text could be recognized in the image."))>>

\* C13: for any interleaving of concurrent OCR calls, every call that got an
\* engine holds one it created itself and that no other call holds; no
\* engine is used (recognize) or terminated by a call other than its creator;
\* and no engine is used after it has been terminated.
C13_EngineExclusiveToCall ==
  /\ \A i \in 1..Len(engines) :
       /\ engines[i].users \subseteq {engines[i].creator}
       /\ engines[i].terminators \subseteq {engines[i].creator}
       /\ ~engines[i].usedAfterTerminate
  /\ \A c \in Calls :
       /\ cpc[c] \in {"recognize", "terminate"} =>
            /\ cworker[c] \in 1..Len(engines)
            /\ engines[cworker[c]].creator = c
       /\ cpc[c] = "recognize" => ~engines[cworker[c]].terminated
       /\ \A d \in Calls \ {c} : cworker[c] # 0 => cworker[c] # cworker[d]

\* Two calls are recognizing at once, each on its own engine, after another
\* engine was already terminated
C13_Witness ==
  /\ \E c, d \in Calls :
       /\ c # d
       /\ cpc[c] = "recognize" /\ cpc[d] = "recognize"
       /\ cworker[c] # cworker[d]
  /\ \E i \in 1..Len(engines) : engines[i].terminated

\* A call of the AI service has settled
AiSettled == aiPc = "done" /\ aiResult # <<>>

\* The settled call was rejected with a message containing sub
AiRejectedWith(sub) ==
  /\ AiSettled
  /\ ~aiResult[1].ok
  /\ Includes(MessageText(aiResult[1].error), sub)

\* The prefix the exported function puts before the error's message
AiPrefix == IF aiFn = "generate" THEN "Failed to generate summary: "
            ELSE "Failed to improve summary: "

\* The last answer of the API (or failure of the fetch) the call has seen
LastAnswer == aiFetchLog[Len(aiFetchLog)]

\* C17: when the API key is not set, generateSummary rejects with an error
\* whose message contains 'OpenAI API key not found' and returns no summary.
C17_NoKeyRejects ==
  (AiSettled /\ aiFn = "generate" /\ ~aiKey) =>
     AiRejectedWith("OpenAI API key not found")

C19_StatusMapping ==
  /\ \A i \in 1..(Len(aiFetchLog) - 1) : aiFetchLog[i] = 429
  /\ aiFetches \in {Len(aiFetchLog), Len(aiFetchLog) + 1}
  /\ (AiSettled /\ Len(aiFetchLog) > 0) =>
       /\ LastAnswer = 401 =>
            aiResult = <<Rejected(Error(AiPrefix \o
              "Invalid OpenAI API key. Please check your credentials."))>>
       /\ LastAnswer \in {500, 502, 503} =>
            aiResult = <<Rejected(Error(AiPrefix \o
              "OpenAI service error. Please try again in a moment."))>>
       /\ LastAnswer = 404 =>
            aiResult = <<Rejected(Error(AiPrefix \o
              (IF aiBody[1].parses /\ aiBody[1].hasMessage /\ aiBody[1].message # ""
               THEN aiBody[1].message
               ELSE "OpenAI API error: 404")))>>

\* improveSummary settled on a 502 answer that followed a retried 429
C19_Witness ==
  AiSettled /\ aiFn = "improve" /\ aiFetchLog = <<429, 502>>

C21_RequestTextTruncated ==
  (aiFn = "generate" /\ aiRequest # <<>>) =>
     /\ Len(aiInput.text) <= 12000 => aiRequest[1] = aiInput.text
     /\ Len(aiInput.text) > 12000 =>
          aiRequest[1] = SubSeq(aiInput.text, 1, 12000) \o "...[truncated]"
     /\ Len(aiRequest[1]) <= 12000 + Len("...[truncated]")

\* generateSummary has issued the fetch for a text longer than 12000
\* characters
C21_Witness ==
  /\ aiFn = "generate"
  /\ aiRequest # <<>>
  /\ Len(aiInput.text) > 12000
  /\ aiPc = "fetch"

\* callOpenAI is running: a fetch, a backoff or a body read is pending
CallOpenAIRunning == aiPc \in {"fetch", "backoff", "error_body", "success_body"}

\* The bounds of the retry loop, in every state of a call
C29_RetryLoop ==
  /\ aiFetches <= 3
  /\ Len(aiFetchLog) <= aiFetches
  /\ \A i \in 1..Len(aiFetchLog) :
       i < aiFetches => (aiFetchLog[i] = 429 /\ i \in {1, 2})
  /\ Len(aiWaits) <= 2
  /\ \A k \in 1..Len(aiWaits) : aiWaits[k] = (IF k = 1 THEN 1000 ELSE 2000)
  /\ aiFetches > 0 =>
       aiFetches = Len(aiWaits) + (IF aiPc = "backoff" THEN 0 ELSE 1)
  /\ (AiSettled /\ aiFetchLog = <<429, 429, 429>>) =>
       (aiWaits = <<1000, 2000>> /\ AiRejectedWith("OpenAI rate limit exceeded"))
  /\ aiParses.ok + aiParses.error <= 1
  /\ aiParses.ok = 1 =>
       (LastAnswer >= 200 /\ LastAnswer <= 299 /\ LastAnswer # NoResponse)
  /\ (aiResult # <<>> /\ aiResult[1].ok /\ aiFetches > 0) => aiParses.ok = 1

OcrCall == createArgs # <<>>

\* C28: in the OCR decoder the engine is created before recognition starts,
\* termination is attempted only after recognition (and validation) has
\* completed or failed, and the call's result or error is delivered to the
\* caller only after the termination attempt has finished.
C28_LifecycleOrder ==
  OcrCall =>
    /\ recognizeCalls > 0 => worker # "null"
    /\ terminateCalls > 0 => (recognizeCalls > 0 /\ pending # <<>>)
    /\ result # <<>> => (terminateCalls = 1 /\ termOutcome # "none")

\* A file-processing workflow (extract + summarize) is running
UploadRunning == upPc # "idle"

\* An improve request is running
ImproveRunning == impPc # "idle"

\* C22: from any reachable UI state and any sequence of user events, a
\* file-processing workflow and an improve request are never running at the
\* same time.
C22_NoTwoRequestsInFlight == ~(UploadRunning /\ ImproveRunning)

\* C25: with a summary displayed and nothing processing, a click on the
\* 'Improve with AI' button calls improveSummary with the current editor
\* content and leaves the button disabled, showing 'Improving...'
\* (isImproving), from that click on.
C25_ClickStartsImprove ==
  [][(HandleImproveClick /\ ~Blank(editorContent)) =>
       /\ isImproving'
       /\ ImproveRunning'
       /\ improveArgs' # <<>>
       /\ improveArgs'[1].content = editorContent]_allVars

\* The step in which a running improve request settles as a failure
ImproveFailsStep ==
  /\ ImproveRunning
  /\ ~ImproveRunning'
  /\ improvement' # <<>>
  /\ (~improvement'[1].ok \/ Blank(improvement'[1].value))

\* C23: when an improve request fails, the editor content is exactly what
\* it was before the request (the content the request was made with), the
\* error message is shown, and isImproving is false again.
C23_FailedImproveKeepsContent ==
  [][ImproveFailsStep =>
       /\ editorContent' = improveArgs[1].content
       /\ error' # <<>>
       /\ ~improvement'[1].ok => error' = <<improvement'[1].error.message>>
       /\ ~isImproving']_allVars

\* The step in which the awaited extractTextFromFile settles
ExtractSettlesStep == upPc = "extracting" /\ upPc' # "extracting"

\* C24: generateSummary is called only with the extracted text, and only
\* when that text is not blank. When the extraction resolves to empty or
\* whitespace-only text the workflow ends with the message 'No text could
\* be extracted from the file. Please ensure the file contains readable
\* text.'; when the extraction rejects, the rejection's message is shown.
\* In both cases generateSummary is not called.
\* (generateCalls lists the calls of the current upload workflow and is
\* emptied when a new workflow starts.)
C24_GenerateOnlyWithText ==
  [][/\ \A i \in 1..Len(generateCalls') : Len(Trim(generateCalls'[i])) > 0
     /\ (generateCalls' # generateCalls /\ generateCalls' # <<>>) =>
          /\ ExtractSettlesStep
          /\ extraction'[1].ok
          /\ generateCalls' = Append(generateCalls, extraction'[1].value)
     /\ (ExtractSettlesStep /\ extraction'[1].ok
           /\ Len(Trim(extraction'[1].value)) = 0) =>
          /\ error' = <<"No text could be extracted from the file. Please ensure the file contains readable text.">>
          /\ generateCalls' = generateCalls
          /\ upPc' = "idle"
     /\ (ExtractSettlesStep /\ ~extraction'[1].ok) =>
          /\ error' = <<extraction'[1].error.message>>
          /\ generateCalls' = generateCalls
          /\ upPc' = "idle"]_allVars

\* A whitespace-only extraction has ended an upload with the message, and
\* generateSummary has not been called
C24_Witness ==
  /\ extraction # <<>>
  /\ extraction[1].ok
  /\ extraction[1].value = "  "
  /\ upPc = "idle"
  /\ error = <<NoTextExtractedMsg>>
  /\ generateCalls = <<>>

\* C26: a file handed to DocumentUploader (dropped while enabled, or picked
\* in the file chooser) is passed to onFileUpload if and only if its type is
\* application/pdf, the DOCX media type, image/png or image/jpeg and its
\* size is at most 10*1024*1024 bytes, and then no validation error is
\* shown (an earlier one is cleared); otherwise onFileUpload is not called
\* and the validation error is the unsupported-type message when the type
\* is wrong, else the size-limit message.
C26_UploadIffValid ==
  [][\A f \in Files :
       ((HandleDrop(f) /\ ~Disabled) \/ HandleFileInputChange(f)) =>
         IF /\ f.type \in {"application/pdf",
                           "application/vnd.openxmlformats-officedocument.wordprocessingml.document",
                           "image/png", "image/jpeg"}
            /\ f.size <= 10485760
         THEN /\ uploadedFile' = <<f>>
              /\ upPc' = "extracting"
              /\ isProcessing'
              /\ validationError' = <<>>
         ELSE /\ UNCHANGED <<appStateVars, uploadRunVars>>
              /\ validationError' # <<>>
              /\ validationError' =
                   IF f.type \in {"application/pdf",
                                  "application/vnd.openxmlformats-officedocument.wordprocessingml.document",
                                  "image/png", "image/jpeg"}
                   THEN <<FileTooLargeMsg>>
                   ELSE <<UnsupportedFileMsg>>]_allVars

\* A supported file of more than 10 MB has been refused with the size-limit
\* message and nothing has been uploaded
C26_Witness ==
  /\ validationError = <<FileTooLargeMsg>>
  /\ uploadedFile = <<>>
  /\ upPc = "idle"
  /\ ~isProcessing

\* A drag-enter, drag-leave, drop or click event on the uploader
UploaderPointerEvent ==
  \/ HandleDragEnter
  \/ HandleDragLeave
  \/ \E payload \in DropPayloads : HandleDrop(payload)
  \/ HandleClick

\* C27: while the uploader is disabled, a drag-enter, drag-leave, drop or
\* click event neither calls onFileUpload (the upload state of App is left
\* as it is and the file chooser is not opened) nor turns the dragging
\* state on; and after every drop, enabled or disabled, the dragging state
\* is false.
C27_DisabledUploaderIgnoresEvents ==
  [][/\ (Disabled /\ UploaderPointerEvent) =>
          /\ UNCHANGED <<appStateVars, uploadRunVars, validationError>>
          /\ ~dialogOpen'
          /\ isDragging' => isDragging
     /\ (\E payload \in DropPayloads : HandleDrop(payload)) => ~isDragging']_allVars

\* A file was dropped while an upload was being processed: the upload is
\* still the one in progress and the uploader is not in the dragging state
C27_Witness ==
  /\ lastDrop = "disabled"
  /\ Disabled
  /\ isProcessing
  /\ upPc = "summarizing"
  /\ ~isDragging

\* The step in which an upload workflow ends
UploadEndsStep == UploadRunning /\ ~UploadRunning'

\* C30: when an upload workflow ends, isProcessing is false, the processing
\* stage is '' and the OCR progress is 0, and exactly one of these holds:
\* no error is shown and the editor holds the non-empty summary of the
\* uploaded file, or an error is shown and the editor is empty.
C30_UploadEndsCleanly ==
  [][UploadEndsStep =>
       /\ ~isProcessing'
       /\ processingStage' = ""
       /\ ocrProgress' = 0
       /\ (/\ error' = <<>>
           /\ summarization' # <<>>
           /\ summarization'[1].ok
           /\ editorContent' # ""
           /\ editorContent' = summarization'[1].value)
          # (error' # <<>> /\ editorContent' = "")]_allVars

====
